---- MODULE Spec2Model ----
(***************************************************************************)
(* State machine of the App component (src/frontend/src/App.js).           *)
(*                                                                         *)
(* The component owns four pieces of React state and issues three kinds of *)
(* backend requests.  Every async handler is split at its single `await`:  *)
(* one action for the part that runs in the event (issuing the request),   *)
(* one for the continuation after the promise resolves and one for the     *)
(* catch block after it rejects.  A continuation runs to completion on the *)
(* single UI thread, so each is one atomic step.                           *)
(*                                                                         *)
(* A handler is a closure of the render that created it: the continuation  *)
(* of handleNewSearchTextSubmit reads the `searchTexts` and                *)
(* `newSearchText` of the render in which the form was submitted, not the  *)
(* values current when the response arrives.  The in-flight request record *)
(* therefore carries both captured values.                                 *)
(***************************************************************************)
EXTENDS Integers, Sequences, FiniteSets, TLC

\* Number of history requests / job-start requests a behaviour may issue.
MaxSelect == 2
MaxSubmit == 2

\* Values the text input can deliver (event.target.value).
Strings == {"", "a"}

\* Bodies the backend may return for GET /unique_search_texts: duplicate-free
\* sequences of search terms, not necessarily sorted.
ServerLists == {<<>>, <<"b", "a">>}

\* Bodies the backend may return for GET /results: sequences of opaque
\* price-history entries (entries are represented by small integers).
Payloads == {<<>>, <<2, 1>>}

\* The fixed target site sent with every job-start request.
TargetUrl == "https://amazon.ca"

VARIABLES
    showPriceHistory,   \* useState(false)
    priceHistory,       \* useState([])
    searchTexts,        \* useState([])
    newSearchText,      \* useState("")
    listReq,            \* GET /unique_search_texts: [status, data], status "unmounted", "pending", "ok", "failed"
    historyReqs,        \* GET /results requests in issue order: pending with the term asked
                        \* for, then "ok" with the response data, or "failed"
    submitReqs,         \* POST /start-scraper requests in issue order: pending with the body
                        \* sent and the closure captured, then only "ok" or "failed"
    alerts,             \* number of alert() dialogs shown
    diagnostics,        \* number of console.error() calls
    lastPanelEvent      \* history: last event of the price-history panel: "none";
                        \* "close", with the id of the newest request in flight at it;
                        \* "success", with the id of the request that resolved and whether
                        \* that request was in flight when the panel was last closed

vars == <<showPriceHistory, priceHistory, searchTexts, newSearchText, listReq,
          historyReqs, submitReqs, alerts, diagnostics,
          lastPanelEvent>>

uiState == <<showPriceHistory, priceHistory, searchTexts, newSearchText>>

Range(s) == {s[i] : i \in 1..Len(s)}

IsPrefix(s, t) == Len(s) <= Len(t) /\ SubSeq(t, 1, Len(s)) = s

NoDuplicates(s) == \A i, j \in 1..Len(s) : s[i] = s[j] => i = j

\* The mount effect has run (the list request has been issued).
Mounted == listReq.status # "unmounted"

\* The request is in flight: issued and neither resolved nor rejected yet.
Pending(id) == id \in 1..Len(historyReqs) /\ historyReqs[id].status = "pending"

SubmitPending(id) == id \in 1..Len(submitReqs) /\ submitReqs[id].status = "pending"

\* The id of the newest history request in flight, 0 when none is.
NewestPending ==
    LET inFlight == {id \in 1..Len(historyReqs) : Pending(id)}
    IN  IF inFlight = {} THEN 0 ELSE CHOOSE id \in inFlight : \A j \in inFlight : j <= id

\* History request id was in flight when the panel was last closed, and no
\* response has been applied since that close.
InFlightAtClose(id) == lastPanelEvent.kind = "close" /\ id <= lastPanelEvent.id

Init ==
    /\ showPriceHistory = FALSE
    /\ priceHistory = <<>>
    /\ searchTexts = <<>>
    /\ newSearchText = ""
    /\ listReq = [status |-> "unmounted", data |-> <<>>]
    /\ historyReqs = <<>>
    /\ submitReqs = <<>>
    /\ alerts = 0
    /\ diagnostics = 0
    /\ lastPanelEvent = [kind |-> "none", id |-> 0, reopened |-> FALSE]

\* useEffect(() => { fetchUniqueSearchTexts(); }, []): runs once after the
\* first render and issues the list request.
fetchUniqueSearchTexts ==
    /\ listReq.status = "unmounted"
    /\ listReq' = [status |-> "pending", data |-> <<>>]
    /\ UNCHANGED <<showPriceHistory, priceHistory, searchTexts, newSearchText,
                   historyReqs, submitReqs, alerts, diagnostics,
                   lastPanelEvent>>

\* Variant of the continuation that keeps the previous list and appends the
\* response to it, setSearchTexts([...searchTexts, ...data]).
fetchUniqueSearchTextsResolved_Appends(data) ==
    /\ listReq.status = "pending"
    /\ listReq' = [status |-> "ok", data |-> data]
    /\ searchTexts' = searchTexts \o data
    /\ UNCHANGED <<showPriceHistory, priceHistory, newSearchText,
                   historyReqs, submitReqs, alerts, diagnostics,
                   lastPanelEvent>>

\* Continuation of fetchUniqueSearchTexts: setSearchTexts(response.data).
fetchUniqueSearchTextsResolved(data) ==
    /\ listReq.status = "pending"
    /\ listReq' = [status |-> "ok", data |-> data]
    /\ searchTexts' = data
    /\ UNCHANGED <<showPriceHistory, priceHistory, newSearchText,
                   historyReqs, submitReqs, alerts, diagnostics,
                   lastPanelEvent>>

\* Variant of the catch block that also raises an alert.
fetchUniqueSearchTextsRejected_Alerts ==
    /\ listReq.status = "pending"
    /\ listReq' = [status |-> "failed", data |-> <<>>]
    /\ diagnostics' = diagnostics + 1
    /\ alerts' = alerts + 1
    /\ UNCHANGED <<showPriceHistory, priceHistory, searchTexts, newSearchText,
                   historyReqs, submitReqs, lastPanelEvent>>

\* catch block of fetchUniqueSearchTexts: console.error only.
fetchUniqueSearchTextsRejected ==
    /\ listReq.status = "pending"
    /\ listReq' = [status |-> "failed", data |-> <<>>]
    /\ diagnostics' = diagnostics + 1
    /\ UNCHANGED <<showPriceHistory, priceHistory, searchTexts, newSearchText,
                   historyReqs, submitReqs, alerts, lastPanelEvent>>

\* handleSearchTextClick up to its await: issues GET /results for the term.
\* SearchTextList is handed searchTexts, so the clicked term is one of them.
handleSearchTextClick(searchText) ==
    /\ Mounted
    /\ Len(historyReqs) < MaxSelect
    /\ searchText \in Range(searchTexts)
    /\ historyReqs' = Append(historyReqs,
                             [status |-> "pending", search_text |-> searchText])
    /\ UNCHANGED <<showPriceHistory, priceHistory, searchTexts, newSearchText,
                   listReq, submitReqs, alerts, diagnostics,
                   lastPanelEvent>>

\* Variant of the continuation that fences responses: only the response to
\* the request issued last is applied, an older one is dropped.
handleSearchTextClickResolved_Fenced(id, data) ==
    /\ Pending(id)
    /\ historyReqs' = [historyReqs EXCEPT ![id] = [status |-> "ok", data |-> data]]
    /\ IF id = Len(historyReqs)
          THEN priceHistory' = data /\ showPriceHistory' = TRUE
          ELSE UNCHANGED <<priceHistory, showPriceHistory>>
    /\ lastPanelEvent' = [kind |-> "success", id |-> id,
                         reopened |-> InFlightAtClose(id)]
    /\ UNCHANGED <<searchTexts, newSearchText, listReq, submitReqs,
                   alerts, diagnostics>>

\* Variant of the continuation that toggles the panel,
\* setShowPriceHistory(!showPriceHistory).
handleSearchTextClickResolved_Toggles(id, data) ==
    /\ Pending(id)
    /\ historyReqs' = [historyReqs EXCEPT ![id] = [status |-> "ok", data |-> data]]
    /\ priceHistory' = data
    /\ showPriceHistory' = ~showPriceHistory
    /\ lastPanelEvent' = [kind |-> "success", id |-> id,
                         reopened |-> InFlightAtClose(id)]
    /\ UNCHANGED <<searchTexts, newSearchText, listReq, submitReqs,
                   alerts, diagnostics>>

\* Variant of the continuation that drops the response of a request that was
\* in flight when the panel was closed.
handleSearchTextClickResolved_DropsAfterClose(id, data) ==
    /\ Pending(id)
    /\ historyReqs' = [historyReqs EXCEPT ![id] = [status |-> "ok", data |-> data]]
    /\ IF InFlightAtClose(id)
          THEN UNCHANGED <<priceHistory, showPriceHistory>>
          ELSE priceHistory' = data /\ showPriceHistory' = TRUE
    /\ lastPanelEvent' = [kind |-> "success", id |-> id,
                         reopened |-> InFlightAtClose(id)]
    /\ UNCHANGED <<searchTexts, newSearchText, listReq, submitReqs,
                   alerts, diagnostics>>

\* Continuation of handleSearchTextClick: setPriceHistory(data);
\* setShowPriceHistory(true).  Any pending request may complete next.
handleSearchTextClickResolved(id, data) ==
    /\ Pending(id)
    /\ historyReqs' = [historyReqs EXCEPT ![id] = [status |-> "ok", data |-> data]]
    /\ priceHistory' = data
    /\ showPriceHistory' = TRUE
    /\ lastPanelEvent' = [kind |-> "success", id |-> id,
                         reopened |-> InFlightAtClose(id)]
    /\ UNCHANGED <<searchTexts, newSearchText, listReq, submitReqs,
                   alerts, diagnostics>>

\* Variant of the catch block that also closes the panel.
handleSearchTextClickRejected_ClosesPanel(id) ==
    /\ Pending(id)
    /\ historyReqs' = [historyReqs EXCEPT ![id] = [status |-> "failed"]]
    /\ diagnostics' = diagnostics + 1
    /\ showPriceHistory' = FALSE
    /\ priceHistory' = <<>>
    /\ UNCHANGED <<searchTexts, newSearchText,
                   listReq, submitReqs, alerts, lastPanelEvent>>

\* Variant of the catch block that retries: it issues the request again.
handleSearchTextClickRejected_Retries(id) ==
    /\ Pending(id)
    /\ historyReqs' = Append([historyReqs EXCEPT ![id] = [status |-> "failed"]],
                             [status |-> "pending",
                              search_text |-> historyReqs[id].search_text])
    /\ diagnostics' = diagnostics + 1
    /\ UNCHANGED <<showPriceHistory, priceHistory, searchTexts, newSearchText,
                   listReq, submitReqs, alerts, lastPanelEvent>>

\* catch block of handleSearchTextClick: console.error only.
handleSearchTextClickRejected(id) ==
    /\ Pending(id)
    /\ historyReqs' = [historyReqs EXCEPT ![id] = [status |-> "failed"]]
    /\ diagnostics' = diagnostics + 1
    /\ UNCHANGED <<showPriceHistory, priceHistory, searchTexts, newSearchText,
                   listReq, submitReqs, alerts, lastPanelEvent>>

\* Variant of the handler without setPriceHistory([]): the rows are kept.
handlePriceHistoryClose_KeepsRows ==
    /\ Mounted
    /\ showPriceHistory' = FALSE
    /\ priceHistory' = priceHistory
    /\ lastPanelEvent' = [kind |-> "close", id |-> NewestPending,
                         reopened |-> FALSE]
    /\ UNCHANGED <<searchTexts, newSearchText, listReq, historyReqs, submitReqs,
                   alerts, diagnostics>>

\* Variant of the handler that toggles, setShowPriceHistory(!showPriceHistory).
handlePriceHistoryClose_Toggles ==
    /\ Mounted
    /\ showPriceHistory' = ~showPriceHistory
    /\ priceHistory' = <<>>
    /\ lastPanelEvent' = [kind |-> "close", id |-> NewestPending,
                         reopened |-> FALSE]
    /\ UNCHANGED <<searchTexts, newSearchText, listReq, historyReqs, submitReqs,
                   alerts, diagnostics>>

\* Variant of the handler that also clears the input, setNewSearchText("").
handlePriceHistoryClose_ClearsInput ==
    /\ Mounted
    /\ showPriceHistory' = FALSE
    /\ priceHistory' = <<>>
    /\ newSearchText' = ""
    /\ lastPanelEvent' = [kind |-> "close", id |-> NewestPending,
                         reopened |-> FALSE]
    /\ UNCHANGED <<searchTexts, listReq, historyReqs, submitReqs,
                   alerts, diagnostics>>

\* handlePriceHistoryClose: setShowPriceHistory(false); setPriceHistory([]).
\* The handler has no condition of its own; invoked on a closed panel it
\* rewrites the values the panel already has.
handlePriceHistoryClose ==
    /\ Mounted
    /\ showPriceHistory' = FALSE
    /\ priceHistory' = <<>>
    /\ lastPanelEvent' = [kind |-> "close", id |-> NewestPending,
                         reopened |-> FALSE]
    /\ UNCHANGED <<searchTexts, newSearchText, listReq, historyReqs, submitReqs,
                   alerts, diagnostics>>

\* handleNewSearchTextChange: setNewSearchText(event.target.value).
handleNewSearchTextChange(value) ==
    /\ Mounted
    /\ newSearchText' = value
    /\ UNCHANGED <<showPriceHistory, priceHistory, searchTexts, listReq,
                   historyReqs, submitReqs, alerts, diagnostics,
                   lastPanelEvent>>

\* handleNewSearchTextSubmit up to its await: event.preventDefault() and
\* POST /start-scraper with body {search_text: newSearchText, url}.  The
\* closure keeps the searchTexts and newSearchText of the current render.
handleNewSearchTextSubmit ==
    /\ Mounted
    /\ Len(submitReqs) < MaxSubmit
    /\ submitReqs' = Append(submitReqs,
           [search_text |-> newSearchText, url |-> TargetUrl,
            searchTexts |-> searchTexts, newSearchText |-> newSearchText,
            status |-> "pending"])
    /\ UNCHANGED <<showPriceHistory, priceHistory, searchTexts, newSearchText,
                   listReq, historyReqs, alerts, diagnostics, lastPanelEvent>>

\* Variant of the continuation with a functional update,
\* setSearchTexts(prev => [...prev, newSearchText]): it appends to the
\* current list.
handleNewSearchTextSubmitResolved_FunctionalUpdate(id) ==
    /\ SubmitPending(id)
    /\ submitReqs' = [submitReqs EXCEPT ![id] = [status |-> "ok"]]
    /\ alerts' = alerts + 1
    /\ searchTexts' = Append(searchTexts, submitReqs[id].newSearchText)
    /\ newSearchText' = ""
    /\ UNCHANGED <<showPriceHistory, priceHistory, listReq, historyReqs,
                   diagnostics, lastPanelEvent>>

\* Variant of the continuation that appends what the input reads when the
\* response arrives instead of the captured newSearchText.
handleNewSearchTextSubmitResolved_ReadsInput(id) ==
    /\ SubmitPending(id)
    /\ submitReqs' = [submitReqs EXCEPT ![id] = [status |-> "ok"]]
    /\ alerts' = alerts + 1
    /\ searchTexts' = Append(submitReqs[id].searchTexts, newSearchText)
    /\ newSearchText' = ""
    /\ UNCHANGED <<showPriceHistory, priceHistory, listReq, historyReqs,
                   diagnostics, lastPanelEvent>>

\* Continuation of handleNewSearchTextSubmit: alert(...);
\* setSearchTexts([...searchTexts, newSearchText]); setNewSearchText("")
\* with the captured searchTexts and newSearchText.
handleNewSearchTextSubmitResolved(id) ==
    /\ SubmitPending(id)
    /\ submitReqs' = [submitReqs EXCEPT ![id] = [status |-> "ok"]]
    /\ alerts' = alerts + 1
    /\ searchTexts' = Append(submitReqs[id].searchTexts, submitReqs[id].newSearchText)
    /\ newSearchText' = ""
    /\ UNCHANGED <<showPriceHistory, priceHistory, listReq, historyReqs,
                   diagnostics, lastPanelEvent>>

\* Variant of the catch block that clears the input, setNewSearchText("").
handleNewSearchTextSubmitRejected_ClearsInput(id) ==
    /\ SubmitPending(id)
    /\ submitReqs' = [submitReqs EXCEPT ![id] = [status |-> "failed"]]
    /\ alerts' = alerts + 1
    /\ newSearchText' = ""
    /\ UNCHANGED <<showPriceHistory, priceHistory, searchTexts,
                   listReq, historyReqs, diagnostics, lastPanelEvent>>

\* catch block of handleNewSearchTextSubmit: alert only.
handleNewSearchTextSubmitRejected(id) ==
    /\ SubmitPending(id)
    /\ submitReqs' = [submitReqs EXCEPT ![id] = [status |-> "failed"]]
    /\ alerts' = alerts + 1
    /\ UNCHANGED <<showPriceHistory, priceHistory, searchTexts, newSearchText,
                   listReq, historyReqs, diagnostics, lastPanelEvent>>

Next ==
    \/ fetchUniqueSearchTexts
    \/ \E data \in ServerLists : fetchUniqueSearchTextsResolved(data)
    \/ fetchUniqueSearchTextsRejected
    \/ \E searchText \in Range(searchTexts) : handleSearchTextClick(searchText)
    \/ \E id \in 1..MaxSelect, data \in Payloads : handleSearchTextClickResolved(id, data)
    \/ \E id \in 1..MaxSelect : handleSearchTextClickRejected(id)
    \/ handlePriceHistoryClose
    \/ \E value \in Strings : handleNewSearchTextChange(value)
    \/ handleNewSearchTextSubmit
    \/ \E id \in 1..MaxSubmit : handleNewSearchTextSubmitResolved(id)
    \/ \E id \in 1..MaxSubmit : handleNewSearchTextSubmitRejected(id)

Spec == Init /\ [][Next]_vars

(***************************************************************************)
(* Steps, named by what they do to the request records.                    *)
(***************************************************************************)

\* The list request resolves / rejects in this step.
LoadSucceeds == listReq.status = "pending" /\ listReq'.status = "ok"
LoadFails == listReq.status = "pending" /\ listReq'.status = "failed"

\* History request id resolves / rejects in this step.
SelectSucceeds(id) == Pending(id) /\ historyReqs'[id].status = "ok"
SelectFails(id) == Pending(id) /\ historyReqs'[id].status = "failed"

\* Job-start request id resolves / rejects in this step.
SubmitSucceeds(id) == SubmitPending(id) /\ submitReqs'[id].status = "ok"
SubmitFails(id) == SubmitPending(id) /\ submitReqs'[id].status = "failed"

\* A ClosePriceHistory step that changes the state.
Closes ==
    /\ lastPanelEvent'.kind = "close"
    /\ UNCHANGED <<searchTexts, newSearchText, listReq, historyReqs, submitReqs,
                   alerts, diagnostics>>

Succeeded == {id \in 1..Len(historyReqs) : historyReqs[id].status = "ok"}

(***************************************************************************)
(* Claims                                                                  *)
(***************************************************************************)

\* C1: whenever the last event of the history panel is a successful
\* SelectSearchTerm completion, the panel is open and priceHistory is the
\* payload of that request, the one that completed last, whichever request
\* was initiated last.
C1_LastCompletedWins ==
    lastPanelEvent.kind = "success" =>
        /\ showPriceHistory = TRUE
        /\ priceHistory = historyReqs[lastPanelEvent.id].data

\* C1 witness: the request initiated last resolved first, with another payload;
\* an earlier request resolved after it and its payload is the one shown.
C1_Witness ==
    /\ lastPanelEvent.kind = "success"
    /\ lastPanelEvent.id < Len(historyReqs)
    /\ historyReqs[Len(historyReqs)].status = "ok"
    /\ historyReqs[Len(historyReqs)].data # historyReqs[lastPanelEvent.id].data
    /\ priceHistory = historyReqs[lastPanelEvent.id].data

\* C2: a successful SubmitNewSearchText completion clears newSearchText and
\* makes searchTexts its value just before the completion with the submitted
\* text appended.
C2_SubmitAppendsToCurrent ==
    [][\A id \in 1..Len(submitReqs) :
          SubmitSucceeds(id) =>
              /\ newSearchText' = ""
              /\ searchTexts' = Append(searchTexts, submitReqs[id].newSearchText)]_vars

\* C3: apart from the replacement by a successful LoadSearchTerms completion,
\* every change of searchTexts keeps the previous value as a prefix.
C3_AppendOnly ==
    [][searchTexts' # searchTexts => LoadSucceeds \/ IsPrefix(searchTexts, searchTexts')]_vars

\* C4: in every reachable state a closed panel has an empty priceHistory.
C4_NoPartialState == showPriceHistory = FALSE => priceHistory = <<>>

\* C4 witness: the panel was opened with a non-empty payload and is closed.
C4_Witness ==
    /\ showPriceHistory = FALSE
    /\ priceHistory = <<>>
    /\ \E id \in Succeeded : historyReqs[id].data # <<>>

\* C5: after ClosePriceHistory the panel is closed and priceHistory empty,
\* whatever the state before, and the step issues no request, completes none
\* and raises neither an alert nor a diagnostic.
C5_CloseResets ==
    [][/\ lastPanelEvent'.kind = "close" =>
              showPriceHistory' = FALSE /\ priceHistory' = <<>>
       /\ lastPanelEvent' # lastPanelEvent /\ lastPanelEvent'.kind = "close" =>
              UNCHANGED <<searchTexts, newSearchText, listReq, historyReqs,
                          submitReqs, alerts, diagnostics>>]_vars

\* C5 witness: closed from an open panel while a history request is in flight.
C5_Witness ==
    /\ lastPanelEvent.kind = "close"
    /\ Succeeded # {}
    /\ \E id \in 1..Len(historyReqs) : Pending(id)
    /\ showPriceHistory = FALSE

\* C6: a failed SubmitNewSearchText completion changes neither searchTexts
\* nor newSearchText; when nothing intervened since the submission, both are
\* the values the submission saw.
C6_SubmitFailureKeepsState ==
    [][\A id \in 1..Len(submitReqs) :
          SubmitFails(id) =>
              /\ UNCHANGED <<searchTexts, newSearchText>>
              /\ (/\ searchTexts = submitReqs[id].searchTexts
                  /\ newSearchText = submitReqs[id].newSearchText) =>
                     /\ searchTexts' = submitReqs[id].searchTexts
                     /\ newSearchText' = submitReqs[id].search_text]_vars

\* C6 witness: the only submission failed; the input still reads "a" and the
\* list has gained nothing.
C6_Witness ==
    /\ Len(submitReqs) = 1
    /\ submitReqs[1].status = "failed"
    /\ newSearchText = "a"
    /\ listReq.status = "ok"
    /\ searchTexts = listReq.data

\* C7: a failed SelectSearchTerm completion leaves the whole UIState
\* unchanged, with the panel open or closed.
C7_SelectFailureKeepsState ==
    [][\A id \in 1..Len(historyReqs) : SelectFails(id) => UNCHANGED uiState]_vars

\* C7 witness: a request issued after the one on display failed, and the open
\* panel still shows the earlier payload.
C7_Witness ==
    /\ showPriceHistory = TRUE
    /\ priceHistory # <<>>
    /\ lastPanelEvent.kind = "success"
    /\ \E id \in 1..Len(historyReqs) :
          id > lastPanelEvent.id /\ historyReqs[id].status = "failed"

\* C8: a successful LoadSearchTerms completion makes searchTexts exactly the
\* sequence the backend returned; a failed one leaves searchTexts as it was.
C8_LoadReplacesOrKeeps ==
    [][/\ LoadSucceeds => searchTexts' = listReq'.data
       /\ LoadFails => searchTexts' = searchTexts]_vars

\* C8 witness: a submission completed before the list arrived; the list
\* replaced what it had appended.
C8_Witness ==
    /\ listReq.status = "ok"
    /\ listReq.data = <<"b", "a">>
    /\ searchTexts = listReq.data
    /\ \E id \in 1..Len(submitReqs) : submitReqs[id].status = "ok"

\* C9: the panel starts closed; it opens only at a successful SelectSearchTerm
\* completion, closes only at ClosePriceHistory, and a successful completion
\* on an open panel keeps it open with the new content.
C9_PanelStateMachine ==
    /\ showPriceHistory = FALSE
    /\ [][/\ (~showPriceHistory /\ showPriceHistory') =>
                 \E id \in 1..Len(historyReqs) : SelectSucceeds(id)
          /\ (showPriceHistory /\ ~showPriceHistory') => Closes
          /\ \A id \in 1..Len(historyReqs) :
                 (showPriceHistory /\ SelectSucceeds(id)) =>
                     showPriceHistory' /\ priceHistory' = historyReqs'[id].data]_vars

\* C9 witness: two requests succeeded and the panel is open on the second
\* completion's content.
C9_Witness ==
    /\ showPriceHistory = TRUE
    /\ Cardinality(Succeeded) = 2
    /\ lastPanelEvent.kind = "success"
    /\ priceHistory = <<2, 1>>

\* C10: searchTexts never contains the same term twice.
C10_NoDuplicateTerms == NoDuplicates(searchTexts)

(***************************************************************************)
(* User events, named by what they do to the request records.              *)
(***************************************************************************)

\* A click on a term: one history request is added, in flight, and nothing
\* else changes.
Clicks ==
    /\ Len(historyReqs') = Len(historyReqs) + 1
    /\ SubSeq(historyReqs', 1, Len(historyReqs)) = historyReqs
    /\ historyReqs'[Len(historyReqs')].status = "pending"
    /\ UNCHANGED <<uiState, listReq, submitReqs, alerts, diagnostics, lastPanelEvent>>

\* A submission of the form: one job-start request is added, in flight, and
\* nothing else changes.
SubmitsForm ==
    /\ Len(submitReqs') = Len(submitReqs) + 1
    /\ SubSeq(submitReqs', 1, Len(submitReqs)) = submitReqs
    /\ submitReqs'[Len(submitReqs')].status = "pending"
    /\ UNCHANGED <<uiState, listReq, historyReqs, alerts, diagnostics, lastPanelEvent>>

\* Some job-start request resolves or rejects in this step.
SubmitCompletes ==
    \E id \in 1..Len(submitReqs) : SubmitSucceeds(id) \/ SubmitFails(id)

SubmitsSucceeded == {id \in 1..Len(submitReqs) : submitReqs[id].status = "ok"}
SubmitsFailed == {id \in 1..Len(submitReqs) : submitReqs[id].status = "failed"}
SelectsFailed == {id \in 1..Len(historyReqs) : historyReqs[id].status = "failed"}

\* C11: every completion of a job-start request raises exactly one alert and
\* no other step raises any; a failed load or select adds one diagnostic and
\* a successful one adds none.
C11_OnlySubmitNotifies ==
    [][/\ SubmitCompletes => alerts' = alerts + 1
       /\ alerts' # alerts => SubmitCompletes
       /\ (LoadSucceeds \/ \E id \in 1..Len(historyReqs) : SelectSucceeds(id)) =>
              alerts' = alerts /\ diagnostics' = diagnostics
       /\ (LoadFails \/ \E id \in 1..Len(historyReqs) : SelectFails(id)) =>
              alerts' = alerts /\ diagnostics' = diagnostics + 1]_vars

\* C11 witness: one submission succeeded and one failed, with two alerts; the
\* load and a select failed, with two diagnostics.
C11_Witness ==
    /\ SubmitsSucceeded # {} /\ SubmitsFailed # {}
    /\ alerts = 2
    /\ listReq.status = "failed"
    /\ SelectsFailed # {}
    /\ Succeeded # {}
    /\ diagnostics = 2

\* C12: the list request is issued once, at mount, and never again; the
\* history and job-start request records grow only by one request per click
\* or form submission, never in a step that completes a request.
C12_NoRetry ==
    [][/\ listReq'.status # "unmounted"
       /\ (listReq'.status = "pending" /\ listReq.status # "pending") =>
              listReq.status = "unmounted"
       /\ historyReqs' # historyReqs =>
              \/ Clicks
              \/ /\ Len(historyReqs') = Len(historyReqs)
                 /\ \E id \in 1..Len(historyReqs) : SelectSucceeds(id) \/ SelectFails(id)
       /\ submitReqs' # submitReqs =>
              \/ SubmitsForm
              \/ Len(submitReqs') = Len(submitReqs) /\ SubmitCompletes]_vars

\* C12 witness: the load, the first select and a submission failed; exactly
\* the requests the user asked for exist, the second select still in flight.
C12_Witness ==
    /\ listReq.status = "failed"
    /\ Len(historyReqs) = 2
    /\ historyReqs[1].status = "failed"
    /\ Pending(2)
    /\ Len(submitReqs) = 2
    /\ SubmitsFailed # {}

\* C13: a step of the history panel (click, completion, close) leaves
\* searchTexts and newSearchText alone; a step of the list load or of a
\* submission leaves the panel alone; an edit changes newSearchText only, and
\* every string, the empty one included, can be entered.
C13_FrameEffects ==
    /\ [](Mounted => \A value \in Strings : ENABLED handleNewSearchTextChange(value))
    /\ [][/\ (\/ historyReqs' # historyReqs
              \/ lastPanelEvent' # lastPanelEvent
              \/ showPriceHistory' # showPriceHistory
              \/ priceHistory' # priceHistory) =>
                 UNCHANGED <<searchTexts, newSearchText>>
          /\ (listReq' # listReq \/ submitReqs' # submitReqs) =>
                 UNCHANGED <<showPriceHistory, priceHistory>>
          /\ (newSearchText' # newSearchText /\ submitReqs' = submitReqs) =>
                 UNCHANGED <<showPriceHistory, priceHistory, searchTexts, listReq,
                             historyReqs, alerts, diagnostics, lastPanelEvent>>]_vars

\* C13 witness: selects and submissions have succeeded and failed around an
\* open panel, a loaded list with one appended term and a typed input.
C13_Witness ==
    /\ showPriceHistory = TRUE
    /\ priceHistory = <<2, 1>>
    /\ SelectsFailed # {}
    /\ SubmitsFailed # {}
    /\ searchTexts = <<"b", "a", "a">>
    /\ newSearchText = "a"

\* C14: a successful SubmitNewSearchText completion makes searchTexts the
\* list captured when the form was submitted, plus one element; what landed
\* in searchTexts in between is overwritten.
C14_WritesSnapshot ==
    [][\A id \in 1..Len(submitReqs) :
          SubmitSucceeds(id) =>
              /\ Len(searchTexts') = Len(submitReqs[id].searchTexts) + 1
              /\ IsPrefix(submitReqs[id].searchTexts, searchTexts')]_vars

\* C14 witness: the backend's list arrived while the only submission was in
\* flight, and the completion replaced it by the one submitted term.
C14_Witness ==
    /\ listReq.status = "ok"
    /\ listReq.data = <<"b", "a">>
    /\ Len(submitReqs) = 1
    /\ submitReqs[1].status = "ok"
    /\ searchTexts = <<"a">>

\* C15: at a successful completion the element appended to searchTexts is the
\* search_text sent in that request's body, and newSearchText becomes "",
\* whatever the input reads at that moment.
C15_AppendsSentText ==
    [][\A id \in 1..Len(submitReqs) :
          SubmitSucceeds(id) =>
              /\ searchTexts' # <<>>
              /\ searchTexts'[Len(searchTexts')] = submitReqs[id].search_text
              /\ newSearchText' = ""]_vars

\* C15 witness: the first submission sent ""; while it was in flight the input
\* was edited to "a" and submitted again; the first then completed, appending
\* "" and clearing the input.
C15_Witness ==
    /\ Len(submitReqs) = 2
    /\ submitReqs[1].status = "ok"
    /\ SubmitPending(2)
    /\ submitReqs[2].search_text = "a"
    /\ searchTexts = Append(submitReqs[2].searchTexts, "")
    /\ newSearchText = ""

\* C16: a history request that was in flight when the panel was closed and
\* then succeeds opens the closed panel with its payload; a closed panel
\* opens only in a step in which a request in flight succeeds.
C16_CloseDoesNotCancel ==
    [][/\ \A id \in 1..Len(historyReqs) :
              (InFlightAtClose(id) /\ SelectSucceeds(id)) =>
                  /\ showPriceHistory = FALSE
                  /\ showPriceHistory' = TRUE
                  /\ priceHistory' = historyReqs'[id].data
       /\ (~showPriceHistory /\ showPriceHistory') =>
              \E id \in 1..Len(historyReqs) : SelectSucceeds(id)
       /\ Closes => historyReqs' = historyReqs]_vars

\* C16 witness: the panel was open, was closed while request 2 was in flight,
\* and is open again on the payload of request 2.
C16_Witness ==
    /\ lastPanelEvent.kind = "success"
    /\ lastPanelEvent.reopened
    /\ lastPanelEvent.id = 2
    /\ historyReqs[1].status = "ok"
    /\ showPriceHistory = TRUE
    /\ priceHistory = <<2, 1>>

====
